---- MODULE Spec2Model ----
(***************************************************************************)
(* Model of lib/models/change.js: the Change model of LoopBack.            *)
(*                                                                         *)
(* JavaScript strings are sequences of one-character strings, so that      *)
(* [modelName, modelId].join('-') is a real concatenation.  null is the    *)
(* distinguished value Null.  A Number that may be null/undefined/NaN is a *)
(* sequence of length at most one: << >> or <<n>>.                         *)
(***************************************************************************)
EXTENDS Integers, Sequences, FiniteSets, TLC

VARIABLES
    store,      \* keyed store of Change records: id -> record
    entities,   \* entity store: <<modelName, modelId>> -> << >> or <<instance>>
    call,       \* the Track call in progress (its arguments)
    tasks,      \* the sub-tasks async.parallel launched for the call
    par,        \* async.parallel's bookkeeping for the call
    cb,         \* what the Track callback has received so far
    budget,     \* what is left of the bounds on calls, faults and mutations
    dq,         \* the Diff invocation in progress
    dcb,        \* what the Diff callback has received
    pure        \* the latest calls of pure functions: arguments and result

vars == <<store, entities, call, tasks, par, cb, budget, dq, dcb, pure>>

\* ------------------------------------------------------------------ values

Null == <<"null">>

\* JavaScript truthiness of a String-or-null property: null and '' are falsy.
Truthy(v) == v # Null /\ v # << >>

\* Change.UPDATE, Change.CREATE, Change.DELETE, Change.UNKNOWN
UPDATE == "update"
CREATE == "create"
DELETE == "delete"
UNKNOWN == "unknown"

\* ------------------------------------------------------- hashing, identity

\* Array.prototype.join for a two-element array of strings.
Join(x, y, sep) == x \o sep \o y

\* Change.hash: a hex digest.  The digest of a string is modelled by the
\* string itself behind a tag: distinct inputs have distinct digests
\* (collision-free), and a digest is never the empty string.
Hash(str) == <<"#">> \o str

\* The two parts joined the other way round.
IdForModelSwapped(modelName, modelId) == Hash(Join(modelId, modelName, <<"-">>))

\* Change.idForModel
IdForModel(modelName, modelId) == Hash(Join(modelName, modelId, <<"-">>))

\* Change.getter.id
IdGetter(ch) ==
    LET hasModel == Truthy(ch.modelName) /\ Truthy(ch.modelId)
    IN  IF ~hasModel THEN Null ELSE IdForModel(ch.modelName, ch.modelId)

\* ----------------------------------------------------- change predicates

\* The classification with the second and third results exchanged.
TypeSwapped(ch) ==
    IF Truthy(ch.rev) /\ Truthy(ch.prev) THEN UPDATE
    ELSE IF Truthy(ch.rev) /\ ~Truthy(ch.prev) THEN DELETE
    ELSE IF ~Truthy(ch.rev) /\ Truthy(ch.prev) THEN CREATE
    ELSE UNKNOWN

\* Change.prototype.type
Type(ch) ==
    IF Truthy(ch.rev) /\ Truthy(ch.prev) THEN UPDATE
    ELSE IF Truthy(ch.rev) /\ ~Truthy(ch.prev) THEN CREATE
    ELSE IF ~Truthy(ch.rev) /\ Truthy(ch.prev) THEN DELETE
    ELSE UNKNOWN

\* A comparison that also looks at prev.
EqualsRevAndPrev(this, change) == change.rev = this.rev /\ change.prev = this.prev

\* Change.prototype.equals: this.equals(change)
Equals(this, change) == change.rev = this.rev

\* The test with receiver and argument swapped.
IsBasedOnSwapped(this, change) == change.prev = this.rev

\* Change.prototype.isBasedOn: this.isBasedOn(change)
IsBasedOn(this, change) == this.prev = change.rev

\* ------------------------------------------------------------------- Diff

\* new Change(data): the constructor copies the declared properties; id is
\* not stored but derived by the getter (IdGetter).
NewChange(data) ==
    [modelName |-> data.modelName, modelId |-> data.modelId,
     rev |-> data.rev, prev |-> data.prev, checkpoint |-> data.checkpoint]

\* modelIds of Change.diff: the modelId of every remote change, in order.
RemoteModelIds(remoteChanges) ==
    [i \in 1..Len(remoteChanges) |-> remoteChanges[i].modelId]

\* remoteChangeIndex of Change.diff: the forEach assigns
\* remoteChangeIndex[ch.modelId] in array order, so the last entry of a
\* modelId is the one that stays.
RemoteChangeIndex(remoteChanges) ==
    LET ids == {remoteChanges[i].modelId : i \in 1..Len(remoteChanges)}
        last(m) == CHOOSE i \in 1..Len(remoteChanges) :
                      /\ remoteChanges[i].modelId = m
                      /\ \A j \in 1..Len(remoteChanges) :
                            remoteChanges[j].modelId = m => j <= i
    IN  [m \in ids |-> NewChange(remoteChanges[last(m)])]

\* since = Number(since) || 0
NormalizeSince(since) == IF since = << >> \/ since[1] = 0 THEN 0 ELSE since[1]

\* An inclusive lower bound (gte) in place of gt.
Gte(checkpoint, since) == checkpoint # << >> /\ checkpoint[1] >= since

\* The store's {gt: since} on a Number property: no match on null.
Gt(checkpoint, since) == checkpoint # << >> /\ checkpoint[1] > since

\* A where clause without the modelName condition.
DiffWhereAnyModel(ch, modelName, modelIds, since) ==
    /\ \E i \in 1..Len(modelIds) : modelIds[i] = ch.modelId
    /\ Gt(ch.checkpoint, since)

\* The where clause of Change.diff's find.
DiffWhere(ch, modelName, modelIds, since) ==
    /\ ch.modelName = modelName
    /\ \E i \in 1..Len(modelIds) : modelIds[i] = ch.modelId
    /\ Gt(ch.checkpoint, since)

\* this.find({where: ...}): the stored records the filter matches.
Find(st, modelName, modelIds, since) ==
    {st[k] : k \in {x \in DOMAIN st : DiffWhere(st[x], modelName, modelIds, since)}}

\* The turn without its else: a delta is also pushed to conflicts.
DisposeNoElse(localChange, remoteChange, acc) ==
    IF ~Equals(localChange, remoteChange)
    THEN LET a == IF IsBasedOn(remoteChange, localChange)
                  THEN [acc EXCEPT !.deltas = Append(@, remoteChange)]
                  ELSE acc
         IN  [a EXCEPT !.conflicts = Append(@, localChange)]
    ELSE acc

\* One turn of localChanges.forEach in Change.diff: acc holds deltas and
\* conflicts; a push appends.
Dispose(localChange, remoteChange, acc) ==
    IF ~Equals(localChange, remoteChange)
    THEN IF IsBasedOn(remoteChange, localChange)
         THEN [acc EXCEPT !.deltas = Append(@, remoteChange)]
         ELSE [acc EXCEPT !.conflicts = Append(@, localChange)]
    ELSE acc

\* localChanges.forEach in Change.diff, from the i-th local change on.
RECURSIVE Classify(_, _, _, _)
Classify(localChanges, index, i, acc) ==
    IF i > Len(localChanges) THEN acc
    ELSE Classify(localChanges, index, i + 1,
                  Dispose(localChanges[i], index[localChanges[i].modelId], acc))

\* The callback of find in Change.diff on success.
DiffResult(localChanges, index) ==
    Classify(localChanges, index, 1, [deltas |-> << >>, conflicts |-> << >>])

\* Every order in which the store may return the records of a set.
Orderings(S) ==
    {q \in [1..Cardinality(S) -> S] : \A i, j \in 1..Cardinality(S) : q[i] = q[j] => i = j}

\* --------------------------------------------------------- Diff: the steps

\* The StoreError the keyed store or the entity accessor raises when the
\* operation op of sub-task i fails (i = 0: the query of Diff).  Every
\* failure raises an error of its own.
StoreError(op, i) == <<"StoreError", op, i>>

DiffIdle ==
    [state |-> "idle", modelName |-> << >>, since |-> << >>,
     remoteChanges |-> << >>, remoteChangeIndex |-> << >>, modelIds |-> << >>,
     sinceN |-> 0, localChanges |-> << >>, err |-> Null]

\* Change.diff up to the call of this.find: the index and the query are
\* built, since is normalized, and the query is in flight.
DiffCall(modelName, since, remoteChanges) ==
    /\ dq.state = "idle"
    /\ dcb = << >>
    /\ dq' = [state |-> "find",
              modelName |-> modelName, since |-> since,
              remoteChanges |-> remoteChanges,
              remoteChangeIndex |-> RemoteChangeIndex(remoteChanges),
              modelIds |-> RemoteModelIds(remoteChanges),
              sinceN |-> NormalizeSince(since),
              localChanges |-> << >>, err |-> Null]
    /\ UNCHANGED <<store, entities, call, tasks, par, cb, budget, dcb, pure>>

\* The error branch replaced by an empty result.
DiffFindErrorSwallowed ==
    /\ dq.state = "find"
    /\ dq' = [dq EXCEPT !.state = "done", !.err = StoreError("find", 0)]
    /\ dcb' = Append(dcb, <<Null, [deltas |-> << >>, conflicts |-> << >>]>>)
    /\ UNCHANGED <<store, entities, call, tasks, par, cb, budget, pure>>

\* The callback of find with an error (kept in dq.err): callback(err).
DiffFindError ==
    /\ dq.state = "find"
    /\ dq' = [dq EXCEPT !.state = "done", !.err = StoreError("find", 0)]
    /\ dcb' = Append(dcb, <<StoreError("find", 0)>>)
    /\ UNCHANGED <<store, entities, call, tasks, par, cb, budget, pure>>

\* A find callback that also saves every delta as the local record.
DiffFindReturnSavesDeltas(localChanges) ==
    LET result == DiffResult(localChanges, dq.remoteChangeIndex)
        saved == {result.deltas[i] : i \in 1..Len(result.deltas)}
    IN  /\ dq.state = "find"
        /\ dq' = [dq EXCEPT !.state = "done", !.localChanges = localChanges]
        /\ dcb' = Append(dcb, <<Null, result>>)
        /\ store' = [k \in DOMAIN store \cup {IdGetter(d) : d \in saved} |->
                        IF \E d \in saved : IdGetter(d) = k
                        THEN CHOOSE d \in saved : IdGetter(d) = k
                        ELSE store[k]]
        /\ UNCHANGED <<entities, call, tasks, par, cb, budget, pure>>

\* The callback of find with the local changes, in the order the store
\* returns them: callback(null, {deltas, conflicts}).
DiffFindReturn(localChanges) ==
    /\ dq.state = "find"
    /\ dq' = [dq EXCEPT !.state = "done", !.localChanges = localChanges]
    /\ dcb' = Append(dcb, <<Null, DiffResult(localChanges, dq.remoteChangeIndex)>>)
    /\ UNCHANGED <<store, entities, call, tasks, par, cb, budget, pure>>

\* ------------------------------------------------- Diff: the specification

\* Largest checkpoint of a stored record, and largest numeric since.
MaxCheckpoint == 1

\* Longest remoteChanges array.
MaxRemote == 2

DiffNames == {<<"a">>, <<"b">>}
DiffIds == {<<"c">>, <<"d">>}

\* Revisions are digests.
RevA == Hash(<<"1">>)
RevB == Hash(<<"2">>)
RevX == Hash(<<"0">>)

Checkpoints == {<< >>} \cup {<<n>> : n \in 0..MaxCheckpoint}
Sinces == {<< >>} \cup {<<n>> : n \in 0..MaxCheckpoint}

\* The local records the store may hold for one entity.
LocalChoices(modelName, modelId, revs, prevs, checkpoints) ==
    {[modelName |-> modelName, modelId |-> modelId,
      rev |-> r, prev |-> p, checkpoint |-> c] :
        r \in revs, p \in prevs, c \in checkpoints}

\* The keyed store holding the records of R, each under its id.
StoreOf(R) ==
    [k \in {IdGetter(r) : r \in R} |-> CHOOSE r \in R : IdGetter(r) = k]

\* At most one record of S.
Opt(S) == {{}} \cup {{r} : r \in S}

\* Local store contents: entity a/c absent or in any state; a/d and b/c
\* present, written at the latest checkpoint.
DiffStores ==
    {StoreOf(Rc \cup Rd \cup Rb) :
        Rc \in Opt(LocalChoices(<<"a">>, <<"c">>, {Null, RevA}, {RevX}, Checkpoints)),
        Rd \in {LocalChoices(<<"a">>, <<"d">>, {RevA}, {Null}, {<<MaxCheckpoint>>})},
        Rb \in {LocalChoices(<<"b">>, <<"c">>, {RevB}, {RevA}, {<<MaxCheckpoint>>})}}

\* The remote changes a caller may supply.
RemoteChoices(modelName) ==
    LocalChoices(modelName, <<"c">>, {Null, RevA, RevB}, {Null, RevA}, {<< >>})
    \cup LocalChoices(modelName, <<"d">>, {RevA, RevB}, {RevA}, {<< >>})

RemoteArrays(modelName) ==
    UNION {[1..n -> RemoteChoices(modelName)] : n \in 0..MaxRemote}

\* No Track call and no entity: the state of the tracker at rest.
TrackIdle ==
    /\ entities = << >>
    /\ call = [state |-> "idle", modelName |-> << >>, modelIds |-> << >>]
    /\ tasks = << >>
    /\ par = [completed |-> 0, noop |-> FALSE, late |-> 0, results |-> << >>]
    /\ cb = << >>
    /\ budget = [tracks |-> 0, faults |-> 0, mutations |-> 0]

PureIdle == pure = << >>

InitDiff ==
    /\ store \in DiffStores
    /\ TrackIdle
    /\ dq = DiffIdle
    /\ dcb = << >>
    /\ PureIdle

NextDiff ==
    \/ \E modelName \in DiffNames, since \in Sinces :
          \E remoteChanges \in RemoteArrays(modelName) :
             DiffCall(modelName, since, remoteChanges)
    \/ DiffFindError
    \/ \E localChanges \in Orderings(Find(store, dq.modelName, dq.modelIds, dq.sinceN)) :
          DiffFindReturn(localChanges)

SpecDiff == InitDiff /\ [][NextDiff]_vars

\* ------------------------------------------------------ Diff: the claims

Range(f) == {f[x] : x \in DOMAIN f}

\* Number of entries of the sequence q that satisfy Test.
Count(q, Test(_)) == Cardinality({i \in 1..Len(q) : Test(q[i])})

\* The Diff invocation has called back with a result.
DiffSucceeded == dq.state = "done" /\ Len(dcb) = 1 /\ Len(dcb[1]) = 2

Deltas == dcb[1][2].deltas
Conflicts == dcb[1][2].conflicts

\* The since the caller passed, as the number the comparison uses.
SinceNumber == IF dq.since = << >> THEN 0 ELSE dq.since[1]

\* The caller supplied a remote change for this modelId.
HasRemote(modelId) ==
    \E i \in 1..Len(dq.remoteChanges) : dq.remoteChanges[i].modelId = modelId

\* The indexed remote counterpart: the last remote change of this modelId.
Remote(modelId) ==
    LET i == CHOOSE k \in 1..Len(dq.remoteChanges) :
                /\ dq.remoteChanges[k].modelId = modelId
                /\ \A j \in (k + 1)..Len(dq.remoteChanges) :
                      dq.remoteChanges[j].modelId # modelId
    IN  dq.remoteChanges[i]

\* The stored records the local query of the claim selects.
Qualifying ==
    {l \in Range(store) :
        /\ l.modelName = dq.modelName
        /\ HasRemote(l.modelId)
        /\ l.checkpoint # << >>
        /\ l.checkpoint[1] > SinceNumber}

\* C1: every local record the query returns whose rev differs from its remote
\* counterpart's puts the remote record into deltas exactly when
\* remote.prev = local.rev, and otherwise puts the local record, not the
\* remote one, into conflicts.
C1_DiffClassification ==
    DiffSucceeded =>
        \A l \in Qualifying :
            LET r == Remote(l.modelId)
                isR(x) == x = r
                isL(x) == x = l
            IN  r.rev # l.rev =>
                  /\ r.prev = l.rev =>
                        Count(Deltas, isR) = 1 /\ Count(Conflicts, isL) = 0
                  /\ r.prev # l.rev =>
                        Count(Deltas, isR) = 0 /\ Count(Conflicts, isL) = 1

\* One invocation reported a delta and a conflict.
C1_Witness ==
    /\ DiffSucceeded
    /\ \E l \in Qualifying :
          Remote(l.modelId).rev # l.rev /\ Remote(l.modelId).prev = l.rev
    /\ \E l \in Qualifying :
          Remote(l.modelId).rev # l.rev /\ Remote(l.modelId).prev # l.rev
    /\ Len(Deltas) >= 1 /\ Len(Conflicts) >= 1

\* C2: a stored record whose checkpoint is at most since, equality included,
\* contributes nothing: it is not among the conflicts, and no delta carries
\* its modelId, however its rev and prev relate to the remote change.
C2_CheckpointFilter ==
    DiffSucceeded /\ dq.since # << >> =>
        \A l \in Range(store) :
            l.checkpoint # << >> /\ l.checkpoint[1] <= dq.since[1] =>
                LET isL(x) == x = l
                    sameId(x) == x.modelId = l.modelId
                IN  /\ Count(Conflicts, isL) = 0
                    /\ l.modelName = dq.modelName => Count(Deltas, sameId) = 0

\* A record at exactly since, with a diverging remote change, was left out.
C2_Witness ==
    /\ DiffSucceeded /\ dq.since # << >>
    /\ \E l \in Range(store) :
          /\ l.modelName = dq.modelName /\ HasRemote(l.modelId)
          /\ l.checkpoint = dq.since
          /\ Remote(l.modelId).rev # l.rev
          /\ \A i \in 1..Len(Conflicts) : Conflicts[i].modelId # l.modelId
          /\ \A i \in 1..Len(Deltas) : Deltas[i].modelId # l.modelId

\* C3: when a local record and its remote counterpart have the same rev, the
\* entity is in neither deltas nor conflicts, whatever prev and checkpoint are.
C3_EqualRevSkipped ==
    DiffSucceeded =>
        \A l \in Range(store) :
            /\ l.modelName = dq.modelName
            /\ HasRemote(l.modelId)
            /\ Remote(l.modelId).rev = l.rev
            => LET sameId(x) == x.modelId = l.modelId
               IN  Count(Deltas, sameId) = 0 /\ Count(Conflicts, sameId) = 0

\* The query returned a record with the remote's rev and another prev, whose
\* remote counterpart would also pass the isBasedOn test.
C3_Witness ==
    /\ DiffSucceeded
    /\ \E l \in Qualifying :
          /\ Remote(l.modelId).rev = l.rev
          /\ Remote(l.modelId).prev # l.prev
          /\ Remote(l.modelId).prev = l.rev
          /\ Remote(l.modelId).checkpoint # l.checkpoint

\* C4: no modelId is in both deltas and conflicts, and a local record the
\* query returned has at most one entry in the two lists together, also when
\* remoteChanges has several entries of one modelId.
C4_Disjoint ==
    DiffSucceeded =>
        /\ \A i \in 1..Len(Deltas), j \in 1..Len(Conflicts) :
              Deltas[i].modelId # Conflicts[j].modelId
        /\ \A k \in 1..Len(dq.localChanges) :
              LET sameId(x) == x.modelId = dq.localChanges[k].modelId
              IN  Count(Deltas, sameId) + Count(Conflicts, sameId) <= 1

\* remoteChanges held a delta and a conflict for the same local record.
C4_Witness ==
    /\ DiffSucceeded
    /\ \E l \in Qualifying :
          \E i, j \in 1..Len(dq.remoteChanges) :
              /\ i # j
              /\ dq.remoteChanges[i].modelId = l.modelId
              /\ dq.remoteChanges[j].modelId = l.modelId
              /\ dq.remoteChanges[i].rev # l.rev /\ dq.remoteChanges[j].rev # l.rev
              /\ dq.remoteChanges[i].prev = l.rev /\ dq.remoteChanges[j].prev # l.rev
    /\ Len(Deltas) + Len(Conflicts) >= 1

\* ------------------------------------------------- the pure functions

\* Number of calls the history keeps.
MaxHistory == 2

PureNames == {<<"a">>, <<"a", "-", "b">>}
PureIds == {<<"c">>, <<"b", "-", "c">>}
PureRevs == {Null, RevA, RevB}

\* The history with one more call, cut to its latest MaxHistory entries.
Remember(h, c) ==
    LET q == Append(h, c)
    IN  IF Len(q) > MaxHistory THEN Tail(q) ELSE q

\* A call of Change.idForModel(modelName, modelId).
CallIdForModel(modelName, modelId) ==
    /\ pure' = Remember(pure, [op |-> "idForModel",
                               args |-> <<modelName, modelId>>,
                               ret |-> IdForModel(modelName, modelId)])
    /\ UNCHANGED <<store, entities, call, tasks, par, cb, budget, dq, dcb>>

\* A call of change.type() on a change with this rev and prev.
CallType(rev, prev) ==
    LET ch == [modelName |-> <<"a">>, modelId |-> <<"c">>,
               rev |-> rev, prev |-> prev, checkpoint |-> << >>]
    IN  /\ pure' = Remember(pure, [op |-> "type", args |-> <<rev, prev>>,
                                   ret |-> Type(ch)])
        /\ UNCHANGED <<store, entities, call, tasks, par, cb, budget, dq, dcb>>

InitPure ==
    /\ store = << >>
    /\ TrackIdle
    /\ dq = DiffIdle
    /\ dcb = << >>
    /\ PureIdle

NextPure ==
    \/ \E modelName \in PureNames, modelId \in PureIds :
          CallIdForModel(modelName, modelId)
    \/ \E rev \in PureRevs, prev \in PureRevs : CallType(rev, prev)

SpecPure == InitPure /\ [][NextPure]_vars

\* C8: type() is UPDATE when rev and prev are set, CREATE when only rev is
\* set, DELETE when only prev is set, UNKNOWN when neither is.
C8_TypeTable ==
    \A i \in 1..Len(pure) :
        pure[i].op = "type" =>
            LET rev == pure[i].args[1]
                prev == pure[i].args[2]
            IN  /\ rev # Null /\ prev # Null => pure[i].ret = "update"
                /\ rev # Null /\ prev = Null => pure[i].ret = "create"
                /\ rev = Null /\ prev # Null => pure[i].ret = "delete"
                /\ rev = Null /\ prev = Null => pure[i].ret = "unknown"

\* type() was called on a deleted entity's change and on a created one's.
C8_Witness ==
    /\ Len(pure) = 2
    /\ pure[1].op = "type" /\ pure[1].args = <<Null, RevA>> /\ pure[1].ret = "delete"
    /\ pure[2].op = "type" /\ pure[2].args = <<RevA, Null>> /\ pure[2].ret = "create"

\* C10: idForModel gives equal ids to equal (modelName, modelId) pairs and
\* different ids to different pairs.
C10_IdInjective ==
    \A i, j \in 1..Len(pure) :
        pure[i].op = "idForModel" /\ pure[j].op = "idForModel" =>
            (pure[i].args = pure[j].args <=> pure[i].ret = pure[j].ret)

\* ------------------------------------------------------------------ Track

\* Bounds of the tracker's specification: Track calls, ids in one call,
\* injected StoreErrors, and writes or deletes of entities.
MaxTracks == 1
MaxBatch == 2
MaxFaults == 2
MaxMutations == 1

TrackNames == {<<"a">>}
TrackIdSeq == << <<"c">>, <<"d">> >>
TrackIds == {TrackIdSeq[k] : k \in 1..Len(TrackIdSeq)}

\* The states an entity's data may be in.
EntityValues == {<<"1">>, <<"2">>}

\* An instance of the tracked model.
Instance(modelId, v) == [id |-> modelId, v |-> v]

\* CJSON.stringify: the canonical JSON text of an instance, keys in order.
CJSONStringify(inst) ==
    <<"{", "i", "d", ":">> \o inst.id \o <<",", "v", ":">> \o inst.v \o <<"}">>

\* Change.revisionForInst
RevisionForInst(inst) == Hash(CJSONStringify(inst))

\* No change object yet.
NoChange ==
    [modelName |-> << >>, modelId |-> << >>, rev |-> Null, prev |-> Null,
     checkpoint |-> << >>]

\* save(): the record is stored under its id, the one the getter derives.
Put(st, ch) ==
    [k \in DOMAIN st \cup {IdGetter(ch)} |-> IF k = IdGetter(ch) THEN ch ELSE st[k]]

\* Change.handleError(err, cb): hands err to cb; the result is the argument
\* list cb is called with.
HandleError(err) == <<err>>

\* A failed task counted as a completed one, its error dropped.
ParallelErrorCounted(p, c, err) ==
    LET q == [p EXCEPT !.completed = @ + 1]
    IN  IF q.completed >= Len(q.results) /\ ~q.noop
        THEN [par |-> q, cb |-> Append(c, <<Null, q.results>>)]
        ELSE [par |-> q, cb |-> c]

\* async.parallel, a task's callback with an error: the final callback is
\* called with it and replaced by a noop.
ParallelError(p, c, err) ==
    IF p.noop THEN [par |-> p, cb |-> c]
    ELSE [par |-> [p EXCEPT !.noop = TRUE], cb |-> Append(c, <<err>>)]

\* A completion test that is off by one: the last result does not complete.
ParallelResultOffByOne(p, c, i, v) ==
    LET q == [p EXCEPT !.results[i] = v, !.completed = @ + 1,
                       !.late = IF p.noop THEN @ + 1 ELSE @]
    IN  IF q.completed > Len(q.results) /\ ~q.noop
        THEN [par |-> q, cb |-> Append(c, <<Null, q.results>>)]
        ELSE [par |-> q, cb |-> c]

\* async.parallel, a task's callback with a result: the result is kept, and
\* the final callback is called with all of them once every task has one.
\* late counts the results that came when the final callback was the noop.
ParallelResult(p, c, i, v) ==
    LET q == [p EXCEPT !.results[i] = v, !.completed = @ + 1,
                       !.late = IF p.noop THEN @ + 1 ELSE @]
    IN  IF q.completed >= Len(q.results) /\ ~q.noop
        THEN [par |-> q, cb |-> Append(c, <<Null, q.results>>)]
        ELSE [par |-> q, cb |-> c]

\* A task that has called back keeps nothing but its outcome.
Ended(task, pc) == [task EXCEPT !.pc = pc, !.change = NoChange]

\* A failing sub-task that also ends the sub-tasks still in flight.
TaskFailsAndCancels(i, err) ==
    LET r == ParallelError(par, cb, err)
    IN  /\ tasks' = [j \in 1..Len(tasks) |->
                        IF j = i \/ tasks[j].pc \notin {"done", "failed"}
                        THEN Ended(tasks[j], "failed")
                        ELSE tasks[j]]
        /\ par' = r.par
        /\ cb' = r.cb

\* A sub-task ends with cb(err): async.parallel's callback of the task runs.
TaskFails(i, err) ==
    LET r == ParallelError(par, cb, err)
    IN  /\ tasks' = [tasks EXCEPT ![i] = Ended(tasks[i], "failed")]
        /\ par' = r.par
        /\ cb' = r.cb

\* The tasks are finished: each has called back.
AllFinished == \A i \in 1..Len(tasks) : tasks[i].pc \in {"done", "failed"}

Spend(what) == budget' = [budget EXCEPT ![what] = @ + 1]

\* Change.track: one task per id, all started by async.parallel, each
\* calling findOrCreate, which computes the id and calls findById.
TrackCall(modelName, modelIds) ==
    /\ call.state = "idle" \/ AllFinished
    /\ dq.state # "find"
    /\ Spend("tracks")
    /\ call' = [state |-> "running", modelName |-> modelName, modelIds |-> modelIds]
    /\ tasks' = [i \in 1..Len(modelIds) |->
                    [pc |-> "findById", modelId |-> modelIds[i],
                     id |-> IdForModel(modelName, modelIds[i]),
                     change |-> NoChange]]
    /\ par' = [completed |-> 0, noop |-> FALSE, late |-> 0,
               results |-> [i \in 1..Len(modelIds) |-> NoChange]]
    /\ cb' = IF Len(modelIds) = 0 THEN << <<Null, << >> >> >> ELSE << >>
    /\ dq' = DiffIdle
    /\ dcb' = << >>
    /\ UNCHANGED <<store, entities, pure>>

\* A rectify that leaves prev as it was.
RectifyStartNoShift(change) == change

\* A rectify that also starts the record's checkpoint over.
RectifyStartResetsCheckpoint(change) ==
    [change EXCEPT !.prev = change.rev, !.checkpoint = <<0>>]

\* change.rectify up to the call of model.findById in currentRevision:
\* this.prev = this.rev.
RectifyStart(change) == [change EXCEPT !.prev = change.rev]

\* The callback of findById in findOrCreate, without error.  A change that is
\* found is handed to Track's callback, which calls rectify; otherwise a new
\* Change is made and its save is called.
FindByIdReturn(i) ==
    /\ i \in 1..Len(tasks)
    /\ tasks[i].pc = "findById"
    /\ IF tasks[i].id \in DOMAIN store
       THEN tasks' = [tasks EXCEPT ![i].pc = "currentRevision",
                                   ![i].change = RectifyStart(store[tasks[i].id])]
       ELSE tasks' = [tasks EXCEPT ![i].pc = "create",
                                   ![i].change = NewChange(
                                       [modelName |-> call.modelName,
                                        modelId |-> tasks[i].modelId,
                                        rev |-> Null, prev |-> Null,
                                        checkpoint |-> << >>])]
    /\ UNCHANGED <<store, entities, call, par, cb, budget, dq, dcb, pure>>

\* The callback of findById in findOrCreate with an error: callback(err),
\* and Track's callback calls handleError(err, cb).
FindByIdError(i) ==
    /\ i \in 1..Len(tasks)
    /\ tasks[i].pc = "findById"
    /\ Spend("faults")
    /\ TaskFails(i, HandleError(StoreError("findById", i))[1])
    /\ UNCHANGED <<store, entities, call, dq, dcb, pure>>

\* ch.save(callback) in findOrCreate succeeds: the new record is stored and
\* Track's callback calls rectify on it.
CreateSaveReturn(i) ==
    /\ i \in 1..Len(tasks)
    /\ tasks[i].pc = "create"
    /\ store' = Put(store, tasks[i].change)
    /\ tasks' = [tasks EXCEPT ![i].pc = "currentRevision",
                              ![i].change = RectifyStart(tasks[i].change)]
    /\ UNCHANGED <<entities, call, par, cb, budget, dq, dcb, pure>>

\* ch.save(callback) in findOrCreate fails: Track's callback calls
\* handleError(err, cb).
CreateSaveError(i) ==
    /\ i \in 1..Len(tasks)
    /\ tasks[i].pc = "create"
    /\ Spend("faults")
    /\ TaskFails(i, HandleError(StoreError("create", i))[1])
    /\ UNCHANGED <<store, entities, call, dq, dcb, pure>>

\* A revision taken from the entity's id alone, not from its data.
CurrentRevisionIgnoresData(found) ==
    IF found # << >> THEN Hash(found[1].id) ELSE Null

\* The callback of model.findById in currentRevision, without error:
\* cb(null, revisionForInst(inst)) or cb(null, null).  The lookup's result
\* is <<inst>>, or << >> when there is no such entity.
CurrentRevision(found) ==
    IF found # << >> THEN RevisionForInst(found[1]) ELSE Null

\* The callback of currentRevision in rectify, without error: change.rev = rev
\* and save is called.
CurrentRevisionReturn(i) ==
    /\ i \in 1..Len(tasks)
    /\ tasks[i].pc = "currentRevision"
    /\ LET change == tasks[i].change
           found == entities[<<change.modelName, change.modelId>>]
       IN  tasks' = [tasks EXCEPT ![i].pc = "save",
                                  ![i].change.rev = CurrentRevision(found)]
    /\ UNCHANGED <<store, entities, call, par, cb, budget, dq, dcb, pure>>

\* model.findById fails: currentRevision calls handleError(err, cb), and
\* rectify's callback calls handleError(err, cb) in turn.
CurrentRevisionError(i) ==
    /\ i \in 1..Len(tasks)
    /\ tasks[i].pc = "currentRevision"
    /\ Spend("faults")
    /\ TaskFails(i, HandleError(HandleError(StoreError("currentRevision", i))[1])[1])
    /\ UNCHANGED <<store, entities, call, dq, dcb, pure>>

\* A save that is skipped when the rectification found nothing new.
RectifySaveReturnSkipsUnchanged(i) ==
    /\ i \in 1..Len(tasks)
    /\ tasks[i].pc = "save"
    /\ store' = IF tasks[i].change.rev = tasks[i].change.prev
                   /\ tasks[i].id \in DOMAIN store
                THEN store
                ELSE Put(store, tasks[i].change)
    /\ tasks' = [tasks EXCEPT ![i] = Ended(tasks[i], "done")]
    /\ LET r == ParallelResult(par, cb, i, tasks[i].change)
       IN  par' = r.par /\ cb' = r.cb
    /\ UNCHANGED <<entities, call, budget, dq, dcb, pure>>

\* A save that removes the record of an entity that is gone.
RectifySaveReturnRemovesDeleted(i) ==
    /\ i \in 1..Len(tasks)
    /\ tasks[i].pc = "save"
    /\ store' = IF tasks[i].change.rev = Null
                THEN [k \in DOMAIN store \ {tasks[i].id} |-> store[k]]
                ELSE Put(store, tasks[i].change)
    /\ tasks' = [tasks EXCEPT ![i] = Ended(tasks[i], "done")]
    /\ LET r == ParallelResult(par, cb, i, tasks[i].change)
       IN  par' = r.par /\ cb' = r.cb
    /\ UNCHANGED <<entities, call, budget, dq, dcb, pure>>

\* change.save(cb) in rectify succeeds: the record is stored and the task
\* calls back with the change.
RectifySaveReturn(i) ==
    /\ i \in 1..Len(tasks)
    /\ tasks[i].pc = "save"
    /\ store' = Put(store, tasks[i].change)
    /\ tasks' = [tasks EXCEPT ![i] = Ended(tasks[i], "done")]
    /\ LET r == ParallelResult(par, cb, i, tasks[i].change)
       IN  par' = r.par /\ cb' = r.cb
    /\ UNCHANGED <<entities, call, budget, dq, dcb, pure>>

\* change.save(cb) in rectify fails: cb(err).
RectifySaveError(i) ==
    /\ i \in 1..Len(tasks)
    /\ tasks[i].pc = "save"
    /\ Spend("faults")
    /\ TaskFails(i, StoreError("save", i))
    /\ UNCHANGED <<store, entities, call, dq, dcb, pure>>

\* The application creates an entity, in its first state.
EntityCreate(modelName, modelId) ==
    /\ entities[<<modelName, modelId>>] = << >>
    /\ Spend("mutations")
    /\ entities' = [entities EXCEPT ![<<modelName, modelId>>] = <<Instance(modelId, <<"1">>)>>]
    /\ UNCHANGED <<store, call, tasks, par, cb, dq, dcb, pure>>

\* The application updates an entity: its data changes.
EntityUpdate(modelName, modelId, v) ==
    /\ entities[<<modelName, modelId>>] # << >>
    /\ entities[<<modelName, modelId>>] # <<Instance(modelId, v)>>
    /\ Spend("mutations")
    /\ entities' = [entities EXCEPT ![<<modelName, modelId>>] = <<Instance(modelId, v)>>]
    /\ UNCHANGED <<store, call, tasks, par, cb, dq, dcb, pure>>

\* The application deletes an entity.
EntityDelete(modelName, modelId) ==
    /\ entities[<<modelName, modelId>>] # << >>
    /\ Spend("mutations")
    /\ entities' = [entities EXCEPT ![<<modelName, modelId>>] = << >>]
    /\ UNCHANGED <<store, call, tasks, par, cb, dq, dcb, pure>>

\* The id arrays a caller passes to Track: up to MaxBatch ids, repeats
\* allowed, listed in the order of TrackIdSeq.
Batches ==
    UNION {{[i \in 1..n |-> TrackIdSeq[f[i]]] :
              f \in {g \in [1..n -> 1..Len(TrackIdSeq)] :
                        \A i, j \in 1..n : i <= j => g[i] <= g[j]}} :
           n \in 0..MaxBatch}

\* The remote changes a client of the tracker's specification diffs against.
TrackRemotes(modelName) ==
    {<<ch>> : ch \in LocalChoices(modelName, <<"c">>, {RevA}, {Null}, {<< >>})}

Init ==
    /\ store = << >>
    /\ entities = [e \in TrackNames \X TrackIds |->
                      IF e[2] = TrackIdSeq[1] THEN <<Instance(e[2], <<"1">>)>> ELSE << >>]
    /\ call = [state |-> "idle", modelName |-> << >>, modelIds |-> << >>]
    /\ tasks = << >>
    /\ par = [completed |-> 0, noop |-> FALSE, late |-> 0, results |-> << >>]
    /\ cb = << >>
    /\ budget = [tracks |-> 0, faults |-> 0, mutations |-> 0]
    /\ dq = DiffIdle
    /\ dcb = << >>
    /\ PureIdle

\* The bounds: what the client, the application and the stores may still do.
MayTrack == budget.tracks < MaxTracks
MayFail == budget.faults < MaxFaults
MayMutate == budget.mutations < MaxMutations

Next ==
    \/ \E modelName \in TrackNames, modelIds \in Batches :
          MayTrack /\ TrackCall(modelName, modelIds)
    \/ \E i \in 1..MaxBatch : FindByIdReturn(i)
    \/ \E i \in 1..MaxBatch : MayFail /\ FindByIdError(i)
    \/ \E i \in 1..MaxBatch : CreateSaveReturn(i)
    \/ \E i \in 1..MaxBatch : MayFail /\ CreateSaveError(i)
    \/ \E i \in 1..MaxBatch : CurrentRevisionReturn(i)
    \/ \E i \in 1..MaxBatch : MayFail /\ CurrentRevisionError(i)
    \/ \E i \in 1..MaxBatch : RectifySaveReturn(i)
    \/ \E i \in 1..MaxBatch : MayFail /\ RectifySaveError(i)
    \/ \E modelName \in TrackNames, modelId \in TrackIds :
          MayMutate /\ EntityCreate(modelName, modelId)
    \/ \E modelName \in TrackNames, modelId \in TrackIds, v \in EntityValues :
          MayMutate /\ EntityUpdate(modelName, modelId, v)
    \/ \E modelName \in TrackNames, modelId \in TrackIds :
          MayMutate /\ EntityDelete(modelName, modelId)
    \/ \E modelName \in TrackNames :
          \E remoteChanges \in TrackRemotes(modelName) :
             budget.tracks = 0 /\ DiffCall(modelName, << >>, remoteChanges)
    \/ DiffFindError
    \/ \E localChanges \in Orderings(Find(store, dq.modelName, dq.modelIds, dq.sinceN)) :
          DiffFindReturn(localChanges)

Spec == Init /\ [][Next]_vars

\* ----------------------------------------------------- Track: the claims

\* Sub-task i calls back in this step, with an error or with its change.
FailsNow(i) ==
    /\ i \in 1..Len(tasks) /\ Len(tasks') = Len(tasks)
    /\ tasks[i].pc \notin {"done", "failed"} /\ tasks'[i].pc = "failed"

\* The Track callback has been called with an error and nothing else.
GotError(c) == Len(c) = 1 /\ c[1][1] # Null /\ c[1][1][1] = "StoreError"

C6_EveryErrorDelivered ==
    [][/\ \A i \in 1..Len(tasks) :
             FailsNow(i) =>
                \E k \in 1..Len(cb') : cb'[k] = <<StoreError(tasks[i].pc, i)>>
       /\ dq.state = "find" /\ dq'.state = "done" /\ dq'.err # Null =>
             dcb' = << <<dq'.err>> >>]_vars

\* C6, amended: a StoreError raised by findById, by save or by the entity
\* accessor ends its sub-task, which is not tried again; when it is the first
\* failure of the Track call, the caller's callback receives that same value,
\* and when an earlier failure was reported already it is dropped.  A
\* StoreError of Diff's query always reaches Diff's callback, unchanged.
C6_FirstErrorDelivered ==
    [][/\ \A i \in 1..Len(tasks) :
             /\ FailsNow(i) =>
                   /\ store' = store
                   /\ IF par.noop THEN cb' = cb
                      ELSE cb' = Append(cb, <<StoreError(tasks[i].pc, i)>>)
             /\ tasks[i].pc = "failed" /\ budget'.tracks = budget.tracks =>
                   tasks'[i] = tasks[i]
       /\ dq.state = "find" /\ dq'.state = "done" /\ dq'.err # Null =>
             dcb' = << <<dq'.err>> >>]_vars

\* The entity accessor failed in currentRevision and the caller got that
\* error.
C6_Witness ==
    /\ \E i \in 1..Len(tasks) :
          tasks[i].pc = "failed" /\ cb = << <<StoreError("currentRevision", i)>> >>
    /\ par.noop

\* The step a sub-task in flight takes when its store operation succeeds.
StepOk(i) ==
    \/ FindByIdReturn(i)
    \/ CreateSaveReturn(i)
    \/ CurrentRevisionReturn(i)
    \/ RectifySaveReturn(i)

\* C7: a failing sub-task leaves its siblings as they are; after the batch
\* has reported the failure every sibling in flight can still take its next
\* step, and the save of its rectify still writes the store.
C7_FireAndCollect ==
    [][\A i \in 1..Len(tasks) :
          /\ FailsNow(i) =>
                \A j \in 1..Len(tasks) : j # i => tasks'[j] = tasks[j]
          /\ par.noop /\ tasks[i].pc \notin {"done", "failed"} => ENABLED StepOk(i)
          /\ par.noop /\ tasks[i].pc = "save" /\ Len(tasks') = Len(tasks)
                /\ tasks'[i].pc = "done" =>
                   /\ IdGetter(tasks[i].change) \in DOMAIN store'
                   /\ store'[IdGetter(tasks[i].change)] = tasks[i].change]_vars

\* After the batch reported a failure a sibling finished, and its record is
\* in the store.
C7_Witness ==
    /\ Len(tasks) = 2
    /\ tasks[1].pc = "failed" /\ tasks[2].pc = "done"
    /\ GotError(cb)
    /\ par.late = 1
    /\ tasks[2].id \in DOMAIN store /\ store[tasks[2].id] = par.results[2]

\* C9: a record is stored under the id Hash(modelName + "-" + modelId) of
\* its own modelName and modelId, every change object a sub-task holds has
\* that id, which is the id its findOrCreate looked up, and records with the
\* same modelName and modelId have the same id.
C9_IdDerived ==
    /\ \A k \in DOMAIN store :
          k = Hash(store[k].modelName \o <<"-">> \o store[k].modelId)
    /\ \A k1, k2 \in DOMAIN store :
          store[k1].modelName = store[k2].modelName
             /\ store[k1].modelId = store[k2].modelId => k1 = k2
    /\ \A i \in 1..Len(tasks) :
          tasks[i].pc \in {"create", "currentRevision", "save"} =>
             /\ IdGetter(tasks[i].change) =
                   Hash(tasks[i].change.modelName \o <<"-">> \o tasks[i].change.modelId)
             /\ IdGetter(tasks[i].change) = tasks[i].id

\* A record was made, stored, found again by its id and rectified again.
C9_Witness ==
    \E k \in DOMAIN store : store[k].rev # Null /\ store[k].prev # Null

\* ------------------------------------------- Track, one call after another

\* Bounds of the sequential specification: Track calls and entity mutations.
MaxSeqTracks == 3
MaxSeqMutations == 2

\* No Track call is in progress.
Quiet == call.state = "idle" \/ AllFinished

\* The fingerprint of entity a/c in state v.
SeqRev(v) == RevisionForInst(Instance(<<"c">>, v))

\* The keyed store at the start: empty, or holding the record of a/c as an
\* earlier Track left it, with the checkpoint the checkpoint allocator gave it.
SeqStores ==
    {<< >>} \cup
    {StoreOf({r}) :
        r \in LocalChoices(<<"a">>, <<"c">>, {SeqRev(<<"1">>)}, {Null},
                           {<<n>> : n \in 0..MaxCheckpoint})}

InitSeq ==
    /\ store \in SeqStores
    /\ entities \in {[e \in TrackNames \X TrackIds |->
                         IF e[2] = <<"c">> THEN x ELSE << >>] :
                      x \in {<< >>, <<Instance(<<"c">>, <<"1">>)>>}}
    /\ call = [state |-> "idle", modelName |-> << >>, modelIds |-> << >>]
    /\ tasks = << >>
    /\ par = [completed |-> 0, noop |-> FALSE, late |-> 0, results |-> << >>]
    /\ cb = << >>
    /\ budget = [tracks |-> 0, faults |-> 0, mutations |-> 0]
    /\ dq = DiffIdle
    /\ dcb = << >>
    /\ PureIdle

\* Track calls of one id, each begun when the one before has finished, and
\* mutations of the entities between the calls.
NextSeq ==
    \/ \E modelName \in TrackNames, modelId \in TrackIds :
          budget.tracks < MaxSeqTracks /\ TrackCall(modelName, <<modelId>>)
    \/ FindByIdReturn(1)
    \/ CreateSaveReturn(1)
    \/ CurrentRevisionReturn(1)
    \/ RectifySaveReturn(1)
    \/ \E modelName \in TrackNames, modelId \in TrackIds :
          Quiet /\ budget.mutations < MaxSeqMutations
                /\ EntityCreate(modelName, modelId)
    \/ \E modelName \in TrackNames, modelId \in TrackIds, v \in EntityValues :
          Quiet /\ budget.mutations < MaxSeqMutations
                /\ EntityUpdate(modelName, modelId, v)
    \/ \E modelName \in TrackNames, modelId \in TrackIds :
          Quiet /\ budget.mutations < MaxSeqMutations
                /\ EntityDelete(modelName, modelId)

SpecSeq == InitSeq /\ [][NextSeq]_vars

\* C11: a stored record's checkpoint, where it has one, is not negative, and
\* no step of findOrCreate or rectify lowers or removes it.
C11_CheckpointMonotone ==
    [][/\ \A k \in DOMAIN store \cap DOMAIN store' :
             store[k].checkpoint # << >> =>
                /\ store'[k].checkpoint # << >>
                /\ store'[k].checkpoint[1] >= store[k].checkpoint[1]
       /\ \A k \in DOMAIN store' :
             store'[k].checkpoint # << >> => store'[k].checkpoint[1] >= 0]_vars

\* A record with a positive checkpoint was rectified twice and kept it.
C11_Witness ==
    /\ Quiet /\ budget.tracks = 2
    /\ \E k \in DOMAIN store :
          /\ store[k].checkpoint = <<MaxCheckpoint>>
          /\ store[k].prev # Null

\* ------------------------------------------------ Diff: frame and sources

\* C12: a step of a Diff invocation, whether it starts the query, receives
\* its records or receives its error, leaves the keyed store and the entity
\* store as they were.
C12_DiffReadOnly ==
    [][dq' # dq \/ dcb' # dcb => store' = store /\ entities' = entities]_vars

\* A Diff over a store of three records reported a delta, and the three
\* records are still there.
C12_Witness ==
    /\ DiffSucceeded
    /\ Len(Deltas) >= 1
    /\ Cardinality(DOMAIN store) = 3
    /\ \E k \in DOMAIN store :
          store[k].modelName = dq.modelName /\ HasRemote(store[k].modelId)
             /\ Remote(store[k].modelId).rev # store[k].rev

\* ---------------------------------------------- Track: records over time

\* Sub-task i goes from the step at to the step to.
Moves(i, at, to) ==
    /\ i \in 1..Len(tasks) /\ Len(tasks') = Len(tasks)
    /\ tasks[i].pc = at /\ tasks'[i].pc = to

\* What the entity accessor holds for the entity sub-task i tracks.
EntityOf(i) == entities[<<call.modelName, tasks[i].modelId>>]

\* C13: rectify is called with prev set to the rev the record had, the found
\* record's or the null one of a new record; its lookup then sets rev to
\* RevisionForInst of the entity when there is one and to null when there is
\* none, which is not a failure; and its save persists exactly that record and
\* hands it to the sub-task's callback.
C13_RectifyTransition ==
    [][\A i \in 1..Len(tasks) :
          /\ Moves(i, "findById", "currentRevision") =>
                /\ tasks[i].id \in DOMAIN store
                /\ tasks'[i].change.prev = store[tasks[i].id].rev
          /\ Moves(i, "create", "currentRevision") =>
                tasks'[i].change.prev = Null
          /\ tasks[i].pc = "currentRevision" /\ Len(tasks') = Len(tasks)
                /\ tasks'[i] # tasks[i] /\ budget'.faults = budget.faults =>
                /\ tasks'[i].pc = "save"
                /\ tasks'[i].change.prev = tasks[i].change.prev
                /\ tasks'[i].change.rev =
                      IF EntityOf(i) # << >> THEN RevisionForInst(EntityOf(i)[1])
                      ELSE Null
          /\ Moves(i, "save", "done") =>
                /\ tasks[i].id \in DOMAIN store'
                /\ store'[tasks[i].id] = tasks[i].change
                /\ par'.results[i] = tasks[i].change]_vars

\* A record that had a rev was rectified after its entity was deleted: it is
\* stored with that rev as prev and a null rev, and Track called back without
\* an error.
C13_Witness ==
    /\ Len(tasks) = 2 /\ tasks[1].pc = "done" /\ tasks[2].pc = "done"
    /\ tasks[2].id \in DOMAIN store
    /\ EntityOf(2) = << >>
    /\ store[tasks[2].id].rev = Null
    /\ store[tasks[2].id].prev = SeqRev(<<"1">>)
    /\ Len(cb) = 1 /\ Len(cb[1]) = 2 /\ cb[1][1] = Null
    /\ cb[1][2][2] = store[tasks[2].id]

\* One sub-task run alone on the store st: findOrCreate, then rectify, with
\* nothing else in between.
SerialSubTask(st, modelName, modelId) ==
    LET id == IdForModel(modelName, modelId)
        found == IF id \in DOMAIN st THEN st[id]
                 ELSE NewChange([modelName |-> modelName, modelId |-> modelId,
                                 rev |-> Null, prev |-> Null, checkpoint |-> << >>])
        change == [RectifyStart(found) EXCEPT
                      !.rev = CurrentRevision(entities[<<modelName, modelId>>])]
    IN  Put(st, change)

\* The sub-tasks of modelIds run one after the other, from the i-th on.
RECURSIVE SerialTrack(_, _, _, _)
SerialTrack(st, modelName, modelIds, i) ==
    IF i > Len(modelIds) THEN st
    ELSE SerialTrack(SerialSubTask(st, modelName, modelIds[i]), modelName, modelIds, i + 1)

\* C14: when the sub-tasks of the first Track call have all succeeded, with
\* no entity changed meanwhile, the store holds what running them one after
\* the other in some order leaves in it.
C14_SerialEquivalent ==
    /\ call.state = "running" /\ budget.tracks = 1 /\ budget.mutations = 0
    /\ \A i \in 1..Len(tasks) : tasks[i].pc = "done"
    => \E p \in Orderings(1..Len(tasks)) :
          store = SerialTrack(<< >>, call.modelName,
                              [i \in 1..Len(tasks) |-> call.modelIds[p[i]]], 1)

\* The record has been rectified with a result: it has a rev or a prev.
Rectified(ch) == ch.rev # Null \/ ch.prev # Null

\* C15: findOrCreate makes a record only when its lookup finds none under
\* the id, the record it makes has neither rev nor prev nor checkpoint, a
\* record it finds stays in the store as it is, and the save of a new record
\* never replaces a stored record that has been rectified.
C15_FindOrCreate ==
    [][\A i \in 1..Len(tasks) :
          /\ Moves(i, "findById", "create") =>
                /\ tasks[i].id \notin DOMAIN store
                /\ tasks'[i].change.rev = Null
                /\ tasks'[i].change.prev = Null
                /\ tasks'[i].change.checkpoint = << >>
          /\ Moves(i, "findById", "currentRevision") => store' = store
          /\ Moves(i, "create", "currentRevision") =>
                /\ store'[tasks[i].id] = tasks[i].change
                /\ tasks[i].id \in DOMAIN store =>
                      ~Rectified(store[tasks[i].id])]_vars

\* C16: no step removes a record from the keyed store, and the save of a
\* rectify that found its entity gone stores the record, with a null rev.
C16_NeverDeleted ==
    [][/\ DOMAIN store \subseteq DOMAIN store'
       /\ \A i \in 1..Len(tasks) :
             Moves(i, "save", "done") /\ EntityOf(i) = << >>
                /\ tasks[i].change.rev = Null =>
                /\ tasks[i].id \in DOMAIN store'
                /\ store'[tasks[i].id].rev = Null
                /\ store'[tasks[i].id].prev = tasks[i].change.prev]_vars

\* Entity a/c was tracked and then deleted, and the next rectification left
\* its record in the store with a null rev.
C16_Witness ==
    /\ budget.mutations = 1
    /\ entities[<< <<"a">>, <<"c">> >>] = << >>
    /\ \E k \in DOMAIN store :
          /\ store[k].modelId = <<"c">>
          /\ store[k].rev = Null /\ store[k].prev # Null

\* ------------------------------------------------- Track: completion

\* The step a sub-task in flight takes when its store operation fails.
StepError(i) ==
    \/ FindByIdError(i)
    \/ CreateSaveError(i)
    \/ CurrentRevisionError(i)
    \/ RectifySaveError(i)

\* Track calls and the callbacks of their store operations, each of which
\* succeeds or, while the bound allows, fails.
NextLive ==
    \/ \E modelName \in TrackNames, modelIds \in Batches :
          MayTrack /\ TrackCall(modelName, modelIds)
    \/ \E i \in 1..MaxBatch : FindByIdReturn(i)
    \/ \E i \in 1..MaxBatch : MayFail /\ FindByIdError(i)
    \/ \E i \in 1..MaxBatch : CreateSaveReturn(i)
    \/ \E i \in 1..MaxBatch : MayFail /\ CreateSaveError(i)
    \/ \E i \in 1..MaxBatch : CurrentRevisionReturn(i)
    \/ \E i \in 1..MaxBatch : MayFail /\ CurrentRevisionError(i)
    \/ \E i \in 1..MaxBatch : RectifySaveReturn(i)
    \/ \E i \in 1..MaxBatch : MayFail /\ RectifySaveError(i)

\* Every store and entity-accessor operation that is called calls back, with
\* a result or with an error.
CallsBack == \A i \in 1..MaxBatch : WF_vars(StepOk(i) \/ (MayFail /\ StepError(i)))

SpecLive == Init /\ [][NextLive]_vars /\ CallsBack

\* C17: the Track callback is never called a second time, every Track call
\* leads to its callback being called, and a call with a list of changes
\* comes when every sub-task is done, with one change for each id.
C17_CompletesOnce ==
    /\ [](Len(cb) <= 1)
    /\ [](call.state = "running" => <>(Len(cb) = 1))
    /\ [](Len(cb) = 1 /\ Len(cb[1]) = 2 =>
             /\ \A i \in 1..Len(tasks) : tasks[i].pc = "done"
             /\ Len(cb[1][2]) = Len(call.modelIds))

\* Two sub-tasks failed and the callback was called once, with the first
\* error.
C17_Witness ==
    /\ Len(tasks) = 2
    /\ tasks[1].pc = "failed" /\ tasks[2].pc = "failed"
    /\ budget.faults = 2
    /\ Len(cb) = 1 /\ Len(cb[1]) = 1

\* ------------------------------------------------ Diff: where entries come from

\* The remote change is of an entity without a local record that the query
\* selects.
Unmatched(r) == \A l \in Qualifying : l.modelId # r.modelId

\* C18: every delta is the copy of a remote change the caller supplied, every
\* conflict is a stored record of the queried modelName whose checkpoint is
\* above since, and a remote change whose modelId has no stored record that
\* the query selects has no entry in deltas and none in conflicts.
C18_OnlyQualifying ==
    DiffSucceeded =>
        /\ \A i \in 1..Len(Deltas) :
              \E j \in 1..Len(dq.remoteChanges) :
                  Deltas[i] = NewChange(dq.remoteChanges[j])
        /\ \A i \in 1..Len(Conflicts) :
              /\ Conflicts[i] \in Range(store)
              /\ Conflicts[i].modelName = dq.modelName
              /\ Conflicts[i].checkpoint # << >>
              /\ Conflicts[i].checkpoint[1] > SinceNumber
        /\ \A j \in 1..Len(dq.remoteChanges) :
              Unmatched(dq.remoteChanges[j]) =>
                  LET sameId(x) == x.modelId = dq.remoteChanges[j].modelId
                  IN  Count(Deltas, sameId) = 0 /\ Count(Conflicts, sameId) = 0

\* Of two remote changes one had no local record the query selects, although
\* another model has a record of its modelId, and the other was reported.
C18_Witness ==
    /\ DiffSucceeded
    /\ Len(dq.remoteChanges) = 2
    /\ dq.remoteChanges[1].modelId # dq.remoteChanges[2].modelId
    /\ \E j \in 1..2 :
          /\ Unmatched(dq.remoteChanges[j])
          /\ \E l \in Range(store) :
                l.modelId = dq.remoteChanges[j].modelId /\ l.modelName # dq.modelName
    /\ Len(Deltas) + Len(Conflicts) = 1

\* ------------------------------------------------- Track: a life cycle

\* Number of rounds of the life cycle: a mutation, then a Track call.
MaxCycles == 4

InitLifecycle ==
    /\ store = << >>
    /\ entities = [e \in TrackNames \X TrackIds |-> << >>]
    /\ call = [state |-> "idle", modelName |-> << >>, modelIds |-> << >>]
    /\ tasks = << >>
    /\ par = [completed |-> 0, noop |-> FALSE, late |-> 0, results |-> << >>]
    /\ cb = << >>
    /\ budget = [tracks |-> 0, faults |-> 0, mutations |-> 0]
    /\ dq = DiffIdle
    /\ dcb = << >>
    /\ PureIdle

\* The application may change entity a/c: every change so far has been
\* tracked, and the Track call has finished.
MayChange ==
    /\ Quiet
    /\ budget.mutations = budget.tracks
    /\ budget.mutations < MaxCycles

\* The stored record of entity a/c.
RecordOfC == store[IdForModel(<<"a">>, <<"c">>)]

\* Entity a/c is changed once, then Track is called for it and runs to its
\* end, the client may ask the record for its type(), and so on.
NextLifecycle ==
    \/ /\ Quiet /\ budget.mutations = budget.tracks
       /\ IdForModel(<<"a">>, <<"c">>) \in DOMAIN store
       /\ CallType(RecordOfC.rev, RecordOfC.prev)
    \/ MayChange /\ EntityCreate(<<"a">>, <<"c">>)
    \/ \E v \in EntityValues : MayChange /\ EntityUpdate(<<"a">>, <<"c">>, v)
    \/ MayChange /\ EntityDelete(<<"a">>, <<"c">>)
    \/ budget.tracks < budget.mutations /\ TrackCall(<<"a">>, << <<"c">> >>)
    \/ FindByIdReturn(1)
    \/ CreateSaveReturn(1)
    \/ CurrentRevisionReturn(1)
    \/ RectifySaveReturn(1)

SpecLifecycle == InitLifecycle /\ [][NextLifecycle]_vars

\* The k-th change of entity a/c has been made and the k-th Track call, made
\* after it, has finished.
Tracked(k) ==
    /\ call.state = "running" /\ AllFinished
    /\ budget.mutations = k /\ budget.tracks = k

\* C19: the entity starts untracked and absent, so its first change is its
\* creation; after the Track that follows, its record's type is CREATE.  When
\* the second change left it in another state, the type after the second
\* Track is UPDATE, and when the third change then deleted it, the type
\* after the third Track is DELETE.
C19_LifecycleTypes ==
    /\ Tracked(1) => Type(RecordOfC) = CREATE
    /\ Tracked(2) /\ entities[<< <<"a">>, <<"c">> >>] = <<Instance(<<"c">>, <<"2">>)>> =>
          Type(RecordOfC) = UPDATE
    /\ Tracked(3) /\ entities[<< <<"a">>, <<"c">> >>] = << >> =>
          Type(RecordOfC) = DELETE

\* Created, modified and deleted, with a Track after each: the record has
\* the modified state's revision as prev and no rev.
C19_Witness ==
    /\ Tracked(3)
    /\ entities[<< <<"a">>, <<"c">> >>] = << >>
    /\ RecordOfC.prev = SeqRev(<<"2">>)
    /\ RecordOfC.rev = Null
    /\ Type(RecordOfC) = DELETE

\* ------------------------------------------- Track: rectifying once more

\* C20: Track calls run one after the other.  When a rectification ends
\* with the entity as the record's rev already describes it, so unchanged
\* since the rectification before, the stored record keeps its rev and gets
\* that rev as prev; the prev it had, the revision before the entity's last
\* change, is gone from it.
C20_RectifyAgain ==
    [][Moves(1, "save", "done") /\ tasks[1].id \in DOMAIN store
          /\ store[tasks[1].id].rev = CurrentRevision(EntityOf(1)) =>
          /\ store'[tasks[1].id].rev = store[tasks[1].id].rev
          /\ store'[tasks[1].id].prev = store'[tasks[1].id].rev
          /\ store[tasks[1].id].prev # store[tasks[1].id].rev =>
                store'[tasks[1].id].prev # store[tasks[1].id].prev]_vars

\* The entity was changed from state 1 to state 2 and its record rectified
\* twice after that: rev and prev are both the revision of state 2, and the
\* revision of state 1 is no longer in the record.
C20_Witness ==
    /\ Quiet /\ budget.tracks = 2 /\ budget.mutations = 1
    /\ Len(tasks) = 1 /\ tasks[1].id \in DOMAIN store
    /\ store[tasks[1].id].rev = SeqRev(<<"2">>)
    /\ store[tasks[1].id].prev = SeqRev(<<"2">>)
    /\ Type(store[tasks[1].id]) = UPDATE
====
